---- MODULE Spec2Model ----
(***************************************************************************)
(* RootPanel (js/src/component/rootpanel.js): the root panel of the graph  *)
(* library.  The panel creates its surface element (this.frame) lazily on  *)
(* repaint, reads rendered geometry back on reflow, watches the viewport   *)
(* for size changes while autoResize is on, and relays raw events of the   *)
(* surface to the listeners registered with on().                          *)
(*                                                                         *)
(* One panel instance is modelled.  JavaScript is single threaded: every   *)
(* method call, timer callback and event dispatch runs to completion, so   *)
(* each is one atomic action.                                              *)
(***************************************************************************)
EXTENDS Integers, Sequences, FiniteSets, TLC

----------------------------------------------------------------------------
(* Bounds of the model *)

\* rendered offsetTop / offsetLeft range over 0..MaxPos
MaxPos == 1
\* rendered offsetWidth / offsetHeight range over 0..MaxDim
MaxDim == 1
\* at most MaxWatch calls of _watch (every call adds a window listener)
MaxWatch == 2
\* at most MaxListeners registrations through on()
MaxListeners == 2

----------------------------------------------------------------------------
(* JavaScript values *)

Undefined == "undefined"
\* a key that the options object passed to setOptions does not have
Absent == "absent"

\* autoResize: {Boolean | function}; the functions produce a boolean
AutoResizeValues == {"true", "false", "fnTrue", "fnFalse"}

\* container: two host elements
Containers == {"c1", "c2"}

\* left / top / width / height: {String | Number | function}
Num(n) == [kind |-> "number", n |-> n, s |-> ""]
Str(s) == [kind |-> "string", n |-> 0, s |-> s]
FnNum(n) == [kind |-> "fnNumber", n |-> n, s |-> ""]
FnStr(s) == [kind |-> "fnString", n |-> 0, s |-> s]
UndefinedSize == [kind |-> "undefined", n |-> 0, s |-> ""]
AbsentSize == [kind |-> "absent", n |-> 0, s |-> ""]

EventNames == {"click", "mousemove"}
Callbacks == {"f", "g"}

\* the error of repaint, and the error of the `in` operator on a non-object
NoContainerError == "Error: Cannot repaint root panel: no container attached"
InTypeError == "TypeError: cannot use 'in' operator on undefined"

\* the value of a geometry field the constructor never assigned
NoGeometry == -1

SizeKeys == {"top", "left", "width", "height"}

----------------------------------------------------------------------------
(* util.option: the option helpers the panel calls *)

\* util.option.asBoolean(value): a function is called, then value != false;
\* null / undefined give null (falsy)
asBoolean(value) ==
    LET v == IF value = "fnTrue" THEN "true"
             ELSE IF value = "fnFalse" THEN "false" ELSE value
    IN  v = "true"

\* the truth value of the raw option in `if (!me.options.autoResize)`:
\* a function object is truthy whatever it produces
Truthy(value) == value \in {"true", "fnTrue", "fnFalse"}

Digit(d) ==
    CASE d = 0 -> "0" [] d = 1 -> "1" [] d = 2 -> "2" [] d = 3 -> "3"
      [] d = 4 -> "4" [] d = 5 -> "5" [] d = 6 -> "6" [] d = 7 -> "7"
      [] d = 8 -> "8" [] OTHER -> "9"

\* String(n) of a non-negative integer
RECURSIVE NumberToString(_)
NumberToString(n) ==
    IF n < 10 THEN Digit(n) ELSE NumberToString(n \div 10) \o Digit(n % 10)

\* util.option.asSize(value, defaultValue): a function is called; a string
\* is returned as it is, a number n becomes n + 'px', anything else gives
\* the default
asSize(value, defaultValue) ==
    LET v == IF value.kind = "fnNumber" THEN Num(value.n)
             ELSE IF value.kind = "fnString" THEN Str(value.s) ELSE value
    IN  IF v.kind = "string" THEN v.s
        ELSE IF v.kind = "number" THEN NumberToString(v.n) \o "px"
        ELSE defaultValue

----------------------------------------------------------------------------
(* The panel and its host *)

VARIABLES
    constructed,      \* the constructor returned (the panel exists)
    options,          \* this.options
    frame,            \* this.frame: 0 = undefined, else the element's identity
    elements,         \* number of document.createElement calls so far
    frameParent,      \* frame.parentNode: Undefined or a container
    appends,          \* number of container.appendChild(frame) calls so far
    frameClass,       \* frame.className
    style,            \* frame.style.top / left / width / height
    rendered,         \* offsetTop / offsetLeft / offsetWidth / offsetHeight
    border,           \* border width the stylesheet gives the surface
    top, left, width, height,   \* this.top ... this.height: cached geometry
    watchTimer,       \* this.watchTimer: 0 = undefined, else an interval id
    timers,           \* the interval timers that are live in the host
    resizeListeners,  \* number of checkSize listeners on window 'resize'
    listeners,        \* this.listeners: event name -> registered callbacks
    emitters,         \* this.emitters: event name -> dispatch function (0 = none)
    frameHandlers,    \* the dispatch functions attached to frame, per event
    deferred,         \* event names registered while no surface existed
    last              \* the last call: what was called and what came back

panelVars == <<constructed, options>>
frameVars == <<frame, elements, frameParent, appends, frameClass, style>>
hostVars == <<rendered, border>>
cacheVars == <<top, left, width, height>>
watchVars == <<watchTimer, timers, resizeListeners>>
eventVars == <<listeners, emitters, frameHandlers, deferred>>
vars == <<panelVars, frameVars, hostVars, cacheVars, watchVars, eventVars, last>>

\* The record of a call: op the operation, arg its event name (for the
\* constructor: whether an options object was passed; for setOptions: the
\* autoResize of the object passed, or Absent), ret what it returned
\* or the error it threw, reqs the number of requestReflow calls it made,
\* calls the listeners it invoked, in order; again = it is a repaint that
\* directly follows a repaint that returned.
Call(op, arg, ret, reqs, calls) ==
    [op |-> op, arg |-> arg, ret |-> ret, reqs |-> reqs, calls |-> calls,
     again |-> (op = "repaint" /\ last.op = "repaint"
                    /\ last.ret \in {"true", "false"})]

----------------------------------------------------------------------------
(* Option objects *)

\* an object literal without any of the recognised keys: {}
EmptyObject ==
    [autoResize |-> Absent, container |-> Absent, className |-> Absent,
     top |-> AbsentSize, left |-> AbsentSize,
     width |-> AbsentSize, height |-> AbsentSize]

\* key in object
In(key, object) ==
    IF key \in SizeKeys THEN object[key].kind # "absent"
    ELSE object[key] # Absent

\* this.options = { autoResize: true }; a key never set reads undefined
DefaultOptions ==
    [autoResize |-> "true", container |-> Undefined, className |-> Undefined,
     top |-> UndefinedSize, left |-> UndefinedSize,
     width |-> UndefinedSize, height |-> UndefinedSize]

\* util.extend(this.options, options), which Component.prototype.setOptions
\* applies: every key of the object passed overwrites the stored one
extend(a, b) == [key \in DOMAIN a |-> IF In(key, b) THEN b[key] ELSE a[key]]

----------------------------------------------------------------------------
(* The resize watch *)

\* the part of the state _watch, _unwatch and checkSize work on
Watch(t, live, n) == [watchTimer |-> t, timers |-> live, resizeListeners |-> n]

\* a variant of _unwatch that also removes the checkSize listener from window
_unwatchRemove(w) ==
    IF w.watchTimer # 0
    THEN [w EXCEPT !.timers = @ \ {w.watchTimer}, !.watchTimer = 0,
                   !.resizeListeners = @ - 1]
    ELSE w

\* RootPanel.prototype._unwatch: clear the interval, forget the handle; the
\* window listener is left in place
_unwatch(w) ==
    IF w.watchTimer # 0
    THEN [w EXCEPT !.timers = @ \ {w.watchTimer}, !.watchTimer = 0]
    ELSE w

\* a variant of _watch that does not call _unwatch first
_watchKeep(w) ==
    [watchTimer |-> w.resizeListeners + 1,
     timers |-> w.timers \cup {w.resizeListeners + 1},
     resizeListeners |-> w.resizeListeners + 1]

\* RootPanel.prototype._watch: _unwatch, add checkSize to window 'resize',
\* start an interval timer that calls checkSize (setInterval returns a
\* handle never returned before: the number of this _watch call)
_watch(w) ==
    LET u == _unwatch(w)
        id == u.resizeListeners + 1
    IN  [watchTimer |-> id,
         timers |-> u.timers \cup {id},
         resizeListeners |-> u.resizeListeners + 1]

\* frame.clientWidth, frame.clientHeight: the rendered box without its border
clientWidth == IF rendered.width > 2 * border THEN rendered.width - 2 * border ELSE 0
clientHeight == IF rendered.height > 2 * border THEN rendered.height - 2 * border ELSE 0

\* a variant of frameResized that compares the width only
frameResizedWidthOnly == clientWidth # width

\* the frame is resized: the test of checkSize on an existing frame
frameResized == (clientWidth # width) \/ (clientHeight # height)

\* a variant of checkSize without the test of the option (no self-cancel)
checkSizeAlways(c) ==
    IF frame # 0 /\ frameResized
    THEN [c EXCEPT !.reqs = @ + 1]
    ELSE c

\* checkSize, one run: c = [w |-> the watch state, reqs |-> the number of
\* requestReflow calls so far]
checkSize(c) ==
    IF ~Truthy(options.autoResize)
    THEN [c EXCEPT !.w = _unwatch(c.w)]
    ELSE IF frame # 0 /\ frameResized
         THEN [c EXCEPT !.reqs = @ + 1]
         ELSE c

\* n runs of checkSize in a row: the window calls every listener of one
\* resize signal before anything else runs
RECURSIVE checkSizeTimes(_, _)
checkSizeTimes(n, c) == IF n = 0 THEN c ELSE checkSizeTimes(n - 1, checkSize(c))

setWatch(w) ==
    /\ watchTimer' = w.watchTimer
    /\ timers' = w.timers
    /\ resizeListeners' = w.resizeListeners

\* the interval timer t fires
Tick(t) ==
    /\ constructed
    /\ t \in timers
    /\ LET c == checkSize([w |-> Watch(watchTimer, timers, resizeListeners), reqs |-> 0])
       IN  /\ setWatch(c.w)
           /\ last' = Call("tick", "", Undefined, c.reqs, <<>>)
    /\ UNCHANGED <<panelVars, frameVars, hostVars, cacheVars, eventVars>>

\* the viewport signals a resize: every checkSize listener on window runs
WindowResize ==
    /\ constructed
    /\ LET c == checkSizeTimes(resizeListeners,
                    [w |-> Watch(watchTimer, timers, resizeListeners), reqs |-> 0])
       IN  /\ setWatch(c.w)
           /\ last' = Call("resize", "", Undefined, c.reqs, <<>>)
    /\ UNCHANGED <<panelVars, frameVars, hostVars, cacheVars, eventVars>>

\* `me.options.autoResize` is changed to v by an assignment to the options
\* record itself, not through setOptions: the change checkSize looks for
\* ("stop watching when the option autoResize is changed to false")
assignAutoResize(v) ==
    /\ constructed
    /\ options.autoResize # v
    /\ options' = [options EXCEPT !.autoResize = v]
    /\ last' = Call("assign", v, Undefined, 0, <<>>)
    /\ UNCHANGED <<constructed, frameVars, hostVars, cacheVars, watchVars, eventVars>>

----------------------------------------------------------------------------
(* Configuration *)

\* the watch after the autoResize branch of RootPanel.prototype.setOptions
setOptionsWatch(object, w) ==
    IF In("autoResize", object)
    THEN IF asBoolean(object.autoResize) THEN _watch(w) ELSE _unwatch(w)
    ELSE w

\* RootPanel.prototype.setOptions(object), object an object
setOptions(object) ==
    /\ constructed
    /\ (In("autoResize", object) /\ asBoolean(object.autoResize))
          => resizeListeners < MaxWatch
    /\ setWatch(setOptionsWatch(object, Watch(watchTimer, timers, resizeListeners)))
    /\ options' = extend(options, object)
    /\ last' = Call("setOptions", object.autoResize, Undefined, 0, <<>>)
    /\ UNCHANGED <<constructed, frameVars, hostVars, cacheVars, eventVars>>

\* new RootPanel(...args): args is the argument list, <<>> or <<object>>.
\* With no argument, options is undefined and `'autoResize' in options`
\* throws before anything else happens: no panel is returned.
\* b is the border of the stylesheet, g the value the geometry fields have
\* before the first reflow.
RootPanel(args, b, g) ==
    LET ok == Len(args) = 1
        w == IF ok THEN setOptionsWatch(args[1], Watch(0, {}, 0)) ELSE Watch(0, {}, 0)
    IN  /\ constructed = ok
        /\ options = IF ok THEN extend(DefaultOptions, args[1]) ELSE DefaultOptions
        /\ frame = 0 /\ elements = 0 /\ frameParent = Undefined /\ appends = 0
        /\ frameClass = ""
        /\ style = [key \in SizeKeys |-> ""]
        /\ rendered = [key \in SizeKeys |-> 0]
        /\ border = b
        /\ top = g /\ left = g /\ width = g /\ height = g
        /\ watchTimer = w.watchTimer
        /\ timers = w.timers
        /\ resizeListeners = w.resizeListeners
        /\ listeners = [e \in EventNames |-> <<>>]
        /\ emitters = [e \in EventNames |-> 0]
        /\ frameHandlers = [e \in EventNames |-> <<>>]
        /\ deferred = {}
        /\ last = [op |-> "new", arg |-> IF ok THEN "object" ELSE "none",
                    ret |-> IF ok THEN Undefined ELSE InTypeError,
                    reqs |-> 0, calls |-> <<>>, again |-> FALSE]

----------------------------------------------------------------------------
(* The surface element *)

\* the numbers the size strings of the model are made of
Numbers == {0, 10, 50, 100}

\* what frame.style holds: a length in px, a percentage, or auto, in the
\* form the style declaration serialises it
CanonicalSizes ==
    {NumberToString(n) \o "px" : n \in Numbers}
        \cup {NumberToString(n) \o "%" : n \in Numbers} \cup {"auto"}

\* frame.style is a CSSStyleDeclaration: an assignment parses the text as a
\* length or percentage and a read serialises the parsed value.  The
\* unitless "0" is the length zero and reads back "0px"; text that is no
\* size is dropped and the property keeps its value.
styleAssign(old, text) ==
    IF text = "0" THEN "0px"
    ELSE IF text \in CanonicalSizes THEN text
    ELSE old

\* the defaults repaint passes to asSize
defaultSize(key) == IF key \in {"top", "left"} THEN "0" ELSE "100%"

\* the size string repaint computes for a key
sizeOf(key) == asSize(options[key], defaultSize(key))

\* `if (frame.style.top != top)`: the style must be written
styleDiffers(key) == style[key] # sizeOf(key)

\* frame.className after creation: 'graph panel' plus options.className
newClassName ==
    IF options.className # Undefined
    THEN "graph panel " \o options.className
    ELSE "graph panel"

\* a variant of cannotAttach that looks for the container only when this
\* call created the frame
cannotAttachCreated(created, parent, container) ==
    created /\ container = Undefined

\* `if (!frame.parentNode) { if (!this.options.container) throw ...`, with
\* created = this call created the frame
cannotAttach(created, parent, container) ==
    parent = Undefined /\ container = Undefined

----------------------------------------------------------------------------
(* Events *)

\* a variant of hasEmitter that never finds the emitter (the test
\* `event in me.emitters` left out)
hasEmitterNever(em, e) == FALSE

\* `event in me.emitters`
hasEmitter(em, e) == em[e] # 0

\* the events _updateEventEmitters creates a dispatch function for, given
\* the frame fr, the listeners ls and the emitters em: every key of
\* this.listeners without an emitter, once the frame exists
toEmit(fr, ls, em) ==
    {e \in EventNames : ls[e] # <<>> /\ ~hasEmitter(em, e) /\ fr # 0}

\* RootPanel.prototype._updateEventEmitters: the new dispatch function of an
\* event is stored in me.emitters and added to the frame's listeners (a
\* function is named by its place in the frame's list for the event)
_updateEventEmitters(fr, ls) ==
    LET new == toEmit(fr, ls, emitters)
    IN  /\ emitters' = [e \in EventNames |->
                          IF e \in new THEN Len(frameHandlers[e]) + 1 ELSE emitters[e]]
        /\ frameHandlers' = [e \in EventNames |->
                          IF e \in new
                          THEN Append(frameHandlers[e], Len(frameHandlers[e]) + 1)
                          ELSE frameHandlers[e]]

\* number of registrations so far
RECURSIVE registrations(_)
registrations(S) ==
    IF S = {} THEN 0
    ELSE LET e == CHOOSE x \in S : TRUE
         IN  Len(listeners[e]) + registrations(S \ {e})

\* a variant of onEmitters that leaves the emitters alone (on without its
\* call of _updateEventEmitters)
onNoEmitters(fr, ls) == UNCHANGED <<emitters, frameHandlers>>

\* `this._updateEventEmitters()` at the end of on, with the listeners ls
onEmitters(fr, ls) == _updateEventEmitters(fr, ls)

\* RootPanel.prototype.on(event, callback)
on(e, cb) ==
    /\ constructed
    /\ registrations(EventNames) < MaxListeners
    /\ listeners' = [listeners EXCEPT ![e] = Append(@, cb)]
    /\ deferred' = IF frame = 0 THEN deferred \cup {e} ELSE deferred
    /\ onEmitters(frame, listeners')
    /\ last' = Call("on", e, Undefined, 0, <<>>)
    /\ UNCHANGED <<panelVars, frameVars, hostVars, cacheVars, watchVars>>

\* the calls one dispatch function of event e makes: the closure holds the
\* listeners array itself, so it sees every registration made so far
emitterCalls(e) == listeners[e]

\* the calls made when the functions hs attached to the frame run in turn
RECURSIVE handlerCalls(_, _)
handlerCalls(hs, e) ==
    IF hs = <<>> THEN <<>>
    ELSE emitterCalls(e) \o handlerCalls(Tail(hs), e)

\* the listeners a raw event named e on the frame invokes, in order
dispatchCalls(e) == handlerCalls(frameHandlers[e], e)

\* a raw event named e reaches the surface, which is in a container
Dispatch(e) ==
    /\ constructed
    /\ frame # 0 /\ frameParent # Undefined
    /\ last' = Call("dispatch", e, Undefined, 0, dispatchCalls(e))
    /\ UNCHANGED <<panelVars, frameVars, hostVars, cacheVars, watchVars, eventVars>>

----------------------------------------------------------------------------
(* Repaint *)

Boolean(b) == IF b THEN "true" ELSE "false"

\* a variant of repaintEmitters that leaves the emitters alone (repaint
\* without its call of _updateEventEmitters)
repaintNoEmitters(fr) == UNCHANGED <<emitters, frameHandlers>>

\* `this._updateEventEmitters()` at the end of repaint, on the frame fr
repaintEmitters(fr) == _updateEventEmitters(fr, listeners)

\* a variant of mustAppend that appends again when the container option
\* is not the frame's parent
mustAppendMoved(parent, container) == parent # container

\* `if (!frame.parentNode)`: the frame is appended to options.container
mustAppend(parent, container) == parent = Undefined

\* a variant of repaintFrame that creates the frame only when a container
\* is configured
repaintFrameChecked ==
    IF frame = 0 /\ options.container # Undefined THEN elements + 1 ELSE frame

\* `frame` after `if (!frame) { frame = document.createElement('div'); ...`
repaintFrame == IF frame = 0 THEN elements + 1 ELSE frame

\* RootPanel.prototype.repaint
repaint ==
    /\ constructed
    /\ LET created == frame = 0
           fr == repaintFrame
       IN  /\ frame' = fr
           /\ elements' = IF created THEN elements + 1 ELSE elements
           /\ frameClass' = IF created THEN newClassName ELSE frameClass
           /\ IF cannotAttach(created, frameParent, options.container)
              THEN /\ last' = Call("repaint", "", NoContainerError, 0, <<>>)
                   /\ UNCHANGED <<frameParent, appends, style, emitters, frameHandlers>>
              ELSE LET attach == mustAppend(frameParent, options.container)
                       changed == created \/ attach
                                    \/ \E key \in SizeKeys : styleDiffers(key)
                   IN  /\ frameParent' = IF attach THEN options.container ELSE frameParent
                       /\ appends' = IF attach THEN appends + 1 ELSE appends
                       /\ style' = [key \in SizeKeys |->
                                      IF styleDiffers(key)
                                      THEN styleAssign(style[key], sizeOf(key))
                                      ELSE style[key]]
                       /\ repaintEmitters(fr)
                       /\ last' = Call("repaint", "", Boolean(changed), 0, <<>>)
    /\ UNCHANGED <<panelVars, hostVars, cacheVars, watchVars, listeners, deferred>>

----------------------------------------------------------------------------
(* Reflow *)

\* a variant of reflowResized that does not compare the height
reflowResizedNoHeight ==
    IF frame # 0
    THEN \/ rendered.top # top
         \/ rendered.left # left
         \/ rendered.width # width
    ELSE TRUE

\* `resized` at the end of RootPanel.prototype.reflow
reflowResized ==
    IF frame # 0
    THEN \/ rendered.top # top
         \/ rendered.left # left
         \/ rendered.width # width
         \/ rendered.height # height
    ELSE TRUE

\* RootPanel.prototype.reflow
reflow ==
    /\ constructed
    /\ IF frame # 0
       THEN /\ top' = rendered.top
            /\ left' = rendered.left
            /\ width' = rendered.width
            /\ height' = rendered.height
       ELSE UNCHANGED cacheVars
    /\ last' = Call("reflow", "", Boolean(reflowResized), 0, <<>>)
    /\ UNCHANGED <<panelVars, frameVars, hostVars, watchVars, eventVars>>

\* the host lays the surface out anew: its rendered box becomes g
Layout(g) ==
    /\ constructed
    /\ frameParent # Undefined
    /\ g # rendered
    /\ rendered' = g
    /\ last' = Call("layout", "", Undefined, 0, <<>>)
    /\ UNCHANGED <<panelVars, frameVars, border, cacheVars, watchVars, eventVars>>

----------------------------------------------------------------------------
(* Specifications.  Each draws the calls' arguments from the small sets    *)
(* that make the behaviour it is about happen.                             *)

\* the borders a stylesheet may give the surface
Borders == {0, 1}

\* the geometry fields before the first reflow: never assigned by this
\* constructor, or the zero of the prototype
InitialGeometry == {NoGeometry, 0}

Geometries(positions, sizes) ==
    [top : positions, left : positions, width : sizes, height : sizes]

\* ---- the resize watch: configuration, timer, viewport, host layout ----

WatchObjects ==
    {EmptyObject, [EmptyObject EXCEPT !.container = "c1"]}
        \cup {[EmptyObject EXCEPT !.autoResize = v] : v \in AutoResizeValues}

InitWatch ==
    \E args \in {<<>>} \cup {<<o>> : o \in WatchObjects} :
        \E b \in Borders : \E g \in InitialGeometry : RootPanel(args, b, g)

NextWatch ==
    \/ \E o \in WatchObjects : setOptions(o)
    \/ repaint
    \/ reflow
    \/ on("click", "f")
    \/ \E t \in timers : Tick(t)
    \/ WindowResize
    \/ \E g \in Geometries({0}, 0..MaxDim) : Layout(g)

SpecWatch == InitWatch /\ [][NextWatch]_vars

\* ---- the resize watch, with the option also changed behind setOptions ----

NextPoll ==
    \/ \E o \in WatchObjects : setOptions(o)
    \/ \E v \in {"true", "false"} : assignAutoResize(v)
    \/ repaint
    \/ reflow
    \/ \E t \in timers : Tick(t)
    \/ WindowResize
    \/ \E g \in Geometries({0}, 0..MaxDim) : Layout(g)

SpecPoll == InitWatch /\ [][NextPoll]_vars

\* ---- events: registration, attachment, dispatch ----

EventObjects == {EmptyObject, [EmptyObject EXCEPT !.container = "c1"]}

InitEvents ==
    \E args \in {<<>>} \cup {<<o>> : o \in EventObjects} : RootPanel(args, 0, 0)

NextEvents ==
    \/ \E o \in EventObjects : setOptions(o)
    \/ repaint
    \/ \E e \in EventNames : \E cb \in Callbacks : on(e, cb)
    \/ \E e \in EventNames : Dispatch(e)

SpecEvents == InitEvents /\ [][NextEvents]_vars

\* ---- painting: container, class name and sizes ----

PaintObjects ==
    {EmptyObject,
     [EmptyObject EXCEPT !.container = "c1"],
     [EmptyObject EXCEPT !.container = "c2"],
     [EmptyObject EXCEPT !.top = Num(10)],
     [EmptyObject EXCEPT !.left = Str("50%")],
     [EmptyObject EXCEPT !.left = Num(0)],
     [EmptyObject EXCEPT !.width = FnNum(100)],
     [EmptyObject EXCEPT !.height = Str("wide")],
     [EmptyObject EXCEPT !.height = FnStr("auto")]}

InitPaint ==
    \E args \in {<<>>, <<EmptyObject>>,
                 <<[EmptyObject EXCEPT !.container = "c1", !.className = "big"]>>} :
        RootPanel(args, 0, 0)

NextPaint ==
    \/ \E o \in PaintObjects : setOptions(o)
    \/ repaint
    \/ on("click", "f")

SpecPaint == InitPaint /\ [][NextPaint]_vars

\* ---- reflow: rendered geometry against the cache ----

InitReflow ==
    \E args \in {<<>>} \cup {<<o>> : o \in EventObjects} :
        \E g \in InitialGeometry : RootPanel(args, 0, g)

NextReflow ==
    \/ \E o \in EventObjects : setOptions(o)
    \/ repaint
    \/ reflow
    \/ \E g \in Geometries(0..MaxPos, 0..MaxDim) : Layout(g)

SpecReflow == InitReflow /\ [][NextReflow]_vars

----------------------------------------------------------------------------
(* Properties *)

\* auto-resize is enabled: the option, read as util.option.asBoolean reads it
autoResizeEnabled == asBoolean(options.autoResize)

\* C1: in every state after construction the panel holds a timer handle
\* (watchTimer) if and only if auto-resize is enabled, also right after
\* constructing a panel whose options do not mention autoResize.
C1_TimerIffAutoResize ==
    constructed => ((watchTimer # 0) <=> autoResizeEnabled)

\* C2: once auto-resize is off (set to false, or to a function that yields
\* false) the timer is stopped, and no timer tick and no viewport resize
\* signal issues a reflow request for as long as it stays off.
C2_NoRequestWhileOff ==
    [][ /\ (constructed /\ ~autoResizeEnabled) => (timers = {} /\ watchTimer = 0)
        /\ (~autoResizeEnabled /\ last'.op \in {"tick", "resize"})
              => last'.reqs = 0 ]_vars

\* C8: the options argument is optional: new RootPanel() completes without
\* error and gives a panel with auto-resize enabled, no container, no
\* surface and no listeners.
C8_OptionsOptional ==
    (last.op = "new" /\ last.arg = "none")
        => /\ constructed
           /\ last.ret = Undefined
           /\ autoResizeEnabled
           /\ options.container = Undefined
           /\ frame = 0
           /\ \A e \in EventNames : listeners[e] = <<>>

C4_DeferredAttached ==
    frameParent # Undefined =>
        \A e \in deferred :
            /\ emitters[e] # 0
            /\ frameHandlers[e] = <<emitters[e]>>
            /\ (last.op = "dispatch" /\ last.arg = e) =>
                   /\ last.calls # <<>>
                   /\ last.calls = listeners[e]

\* C4 happens: an event registered before the surface existed was dispatched
C4_Witness ==
    /\ last.op = "dispatch"
    /\ last.arg \in deferred
    /\ Len(last.calls) >= 1

\* C9: after every on and every repaint that returns, each event name with
\* a listener has its dispatch function on the surface once the surface
\* exists; a dispatch function, once attached, stays the same one and is
\* never attached again; a listener registered after that is invoked by it.
C9_EmittersSynchronized ==
    /\ [](((last.op = "on" \/ (last.op = "repaint" /\ last.ret # NoContainerError))
              /\ frame # 0)
            => \A e \in EventNames :
                 listeners[e] # <<>> =>
                     (emitters[e] # 0 /\ frameHandlers[e] = <<emitters[e]>>))
    /\ [][\A e \in EventNames :
            emitters[e] # 0 =>
                /\ emitters'[e] = emitters[e]
                /\ frameHandlers'[e] = frameHandlers[e]
                /\ (last'.op = "on" /\ last'.arg = e) =>
                       dispatchCalls(e)' = listeners'[e]
                       ]_vars

\* C9 happens: a listener was registered for an event whose dispatch
\* function was already attached
C9_Witness ==
    /\ last.op = "on"
    /\ last.arg \notin deferred
    /\ Len(listeners[last.arg]) = 2
    /\ frameHandlers[last.arg] = <<1>>

\* C5: every repaint called while the surface has no parent and no
\* container is configured raises 'Cannot repaint root panel: no container
\* attached', whatever the other options and the listeners are.
C5_RepaintNeedsContainer ==
    [][(last'.op = "repaint" /\ frameParent = Undefined
            /\ options.container = Undefined)
        => last'.ret = NoContainerError]_vars

\* C5 happens: a repaint failed on a panel with a listener and a size option
C5_Witness ==
    /\ last.op = "repaint"
    /\ last.ret = NoContainerError
    /\ listeners["click"] # <<>>
    /\ options.top.kind = "number"

\* C6: repaint is idempotent: a repaint that directly follows a repaint
\* that returned leaves the surface as it was (element, parent, class,
\* style strings, dispatch functions) and returns changed = false.
C6_RepaintIdempotent ==
    [][(last'.op = "repaint" /\ last'.again)
        => /\ last'.ret = "false"
           /\ frameVars' = frameVars
           /\ emitters' = emitters
           /\ frameHandlers' = frameHandlers]_vars

\* the rendered geometry and the cached geometry, field by field
renderedGeometry == <<rendered.top, rendered.left, rendered.width, rendered.height>>
cachedGeometry == <<top, left, width, height>>

\* C7: reflow without a surface returns true and leaves the cache alone;
\* with a surface it returns true exactly when a rendered offset differs
\* from its cached value and stores the rendered values, so a reflow that
\* directly follows a reflow returns false.
C7_Reflow ==
    [][last'.op = "reflow" =>
        /\ frame = 0 => (last'.ret = "true" /\ cachedGeometry' = cachedGeometry)
        /\ frame # 0 =>
              /\ last'.ret = Boolean(renderedGeometry # cachedGeometry)
              /\ cachedGeometry' = renderedGeometry
        /\ (frame # 0 /\ last.op = "reflow") => last'.ret = "false"]_vars

\* C7 happens: a reflow on a surface found its geometry, not all zero, cached
C7_Witness ==
    /\ last.op = "reflow"
    /\ last.ret = "false"
    /\ frame # 0
    /\ rendered.top # 0 /\ rendered.height # 0

\* C10: while auto-resize is enabled every run of the size check, from a
\* timer tick or a viewport resize signal, requests a reflow exactly when
\* the surface exists and its client width or height differs from the
\* cached width or height; the check changes neither the cache nor the
\* surface nor the timer.
C10_SizeCheck ==
    [][(autoResizeEnabled /\ last'.op \in {"tick", "resize"}) =>
        LET checks == IF last'.op = "tick" THEN 1 ELSE resizeListeners
            mismatch == frame # 0
                          /\ (clientWidth # width \/ clientHeight # height)
        IN  /\ last'.reqs = IF mismatch THEN checks ELSE 0
            /\ UNCHANGED <<cacheVars, frameVars, watchVars>>]_vars

\* C10 happens: a tick requested a reflow because only the height differed
C10_Witness ==
    /\ last.op = "tick"
    /\ last.reqs = 1
    /\ autoResizeEnabled
    /\ clientWidth = width
    /\ clientHeight # height

\* C11: a size check, from the timer or from a viewport resize signal, that
\* finds the option off cancels the watch: afterwards the handle is unset
\* and no timer is live, the check requests no reflow, and no timer runs
\* again before setOptions enables auto-resize.
C11_SelfCancel ==
    [][ /\ (/\ ~Truthy(options.autoResize)
            /\ \/ last'.op = "tick"
               \/ (last'.op = "resize" /\ resizeListeners > 0))
           => (watchTimer' = 0 /\ timers' = {} /\ last'.reqs = 0)
        /\ (timers = {} /\ timers' # {})
              => (last'.op = "setOptions" /\ autoResizeEnabled') ]_vars

\* C11 happens: a timer tick found the option off while the size differed
C11_Witness ==
    /\ last.op = "tick"
    /\ ~Truthy(options.autoResize)
    /\ watchTimer = 0
    /\ frame # 0 /\ frameResized

\* C12: over any sequence of repaint (returning or failing), setOptions and
\* on, the panel creates at most one surface element, this.frame keeps
\* referring to it, and it is appended to a container at most once: a
\* changed container option does not move the attached surface.
C12_SurfaceOnce ==
    /\ [](elements <= 1 /\ appends <= 1 /\ frame = elements)
    /\ [][/\ frame # 0 => frame' = frame
          /\ frameParent # Undefined =>
                (frameParent' = frameParent /\ appends' = appends)]_vars

\* C12 happens: a repaint returned with the container option changed after
\* the surface was attached
C12_Witness ==
    /\ last.op = "repaint"
    /\ last.ret \in {"true", "false"}
    /\ frameParent = "c1"
    /\ options.container = "c2"
    /\ appends = 1

\* C13: a repaint that returns gives changed = true exactly when the call
\* created the surface, appended it to the container, wrote one of the
\* top / left / width / height style strings, or attached a new dispatch
\* function; so a repaint that attaches a dispatch function returns true.
C13_ChangedIffMutated ==
    [][(last'.op = "repaint" /\ last'.ret \in {"true", "false"}) =>
        /\ last'.ret = "true" <=>
              \/ frame = 0
              \/ appends' # appends
              \/ \E key \in SizeKeys : styleDiffers(key)
              \/ frameHandlers' # frameHandlers
        /\ frameHandlers' # frameHandlers => last'.ret = "true"]_vars

\* C13 happens: a repaint returned true on a panel whose only listener was
\* registered before the surface existed, and its dispatch function is on
\* the surface
C13_Witness ==
    /\ last.op = "repaint"
    /\ last.ret = "true"
    /\ listeners["click"] = <<"f">>
    /\ "click" \in deferred
    /\ frameHandlers["click"] = <<1>>

\* C14: at most one interval timer is live at any time: the live timer is
\* the one this.watchTimer holds, and a step that starts a timer leaves no
\* earlier timer live, however often auto-resize is enabled and disabled.
C14_OneTimer ==
    /\ [](Cardinality(timers) <= 1 /\ timers \subseteq {watchTimer})
    /\ [][\A t \in timers' \ timers : timers' = {t}]_vars

\* C14 happens: the watch was started a second time and one timer is live
C14_Witness ==
    /\ last.op = "setOptions"
    /\ asBoolean(last.arg)
    /\ resizeListeners = 2
    /\ timers = {2}

\* C15: a repaint that fails for lack of a container still changes the
\* panel: it creates the surface if there was none and keeps it, without a
\* parent, writes no style string and attaches no dispatch function.  The
\* listeners registered before it get their dispatch function only from the
\* next on or the next repaint that returns; that repaint, called with a
\* container configured, keeps the same element, appends it and returns
\* true.
C15_FailedRepaint ==
    [][/\ (last'.op = "repaint" /\ last'.ret = NoContainerError) =>
            /\ frame' # 0
            /\ frame = 0 => elements' = elements + 1
            /\ frame # 0 => (frame' = frame /\ elements' = elements)
            /\ frameParent' = Undefined
            /\ style' = style
            /\ emitters' = emitters
            /\ frameHandlers' = frameHandlers
       /\ (\E e \in EventNames : emitters[e] = 0 /\ emitters'[e] # 0) =>
            \/ last'.op = "on"
            \/ (last'.op = "repaint" /\ last'.ret \in {"true", "false"})
       /\ (/\ frame # 0 /\ frameParent = Undefined
           /\ last'.op = "repaint" /\ options.container # Undefined) =>
            /\ frame' = frame
            /\ frameParent' = options.container
            /\ appends' = appends + 1
            /\ last'.ret = "true"]_vars

\* C15 happens: after a failed repaint the surface exists, without a parent,
\* and the listener registered before has no dispatch function
C15_Witness ==
    /\ last.op = "repaint"
    /\ last.ret = NoContainerError
    /\ frame # 0
    /\ frameParent = Undefined
    /\ listeners["click"] # <<>>
    /\ emitters["click"] = 0
    /\ frameHandlers["click"] = <<>>

\* C16: resize listeners on the window only accumulate.  A step adds one
\* listener exactly when it is a setOptions call carrying a true autoResize
\* (a _watch), and no step removes one, so their number is the number of
\* watches ever started, the constructor's included; a viewport resize
\* signal that finds auto-resize on and the surface at another size than
\* the cached one requests one reflow per listener.
C16_ListenersAccumulate ==
    /\ [](last.op = "new" => resizeListeners = (IF watchTimer # 0 THEN 1 ELSE 0))
    /\ [][/\ resizeListeners' =
                resizeListeners +
                (IF last'.op = "setOptions" /\ asBoolean(last'.arg) THEN 1 ELSE 0)
          /\ (/\ last'.op = "resize"
              /\ Truthy(options.autoResize)
              /\ frame # 0
              /\ frameResized) => last'.reqs = resizeListeners]_vars

\* C16 happens: auto-resize was disabled and enabled again, one timer is
\* live, and one viewport resize signal has requested two reflows
C16_Witness ==
    /\ last.op = "resize"
    /\ last.reqs = 2
    /\ resizeListeners = 2
    /\ Cardinality(timers) = 1

\* C17: the resize watch quiesces.  Directly after a reflow of an existing
\* surface, with the rendered size as that reflow read it, a timer tick or
\* a viewport resize signal requests no reflow.
C17_WatchQuiesces ==
    [][(/\ last.op = "reflow"
        /\ frame # 0
        /\ last'.op \in {"tick", "resize"}) => last'.reqs = 0]_vars

====
